---- MODULE Spec2Model ----
(***************************************************************************)
(* Model of the 0x01-NoSQL helpers of alx-backend-storage:                 *)
(*   8-all.py            list_all                                          *)
(*   9-insert_school.py  insert_school                                     *)
(*   10-update_topics.py update_topics                                     *)
(*   11-schools_by_topic.py schools_by_topic                               *)
(*   12-log_stats.py     logs_statistics                                   *)
(* The helpers are thin wrappers around a pymongo collection, so the model *)
(* carries the collection itself (a sequence of documents in natural       *)
(* order) and the four store calls the helpers make: find, insert_one,     *)
(* update_many and count_documents.                                        *)
(*                                                                         *)
(* A document is a record whose domain is the set of the fields it has.    *)
(* Following the data model of the school collection, "name" and "address" *)
(* hold strings, "topics" holds a sequence of strings and "_id" holds the  *)
(* identifier generated by the store.                                      *)
(*                                                                         *)
(* The program is single-threaded: its writes (insert_school and           *)
(* update_topics) never overlap. update_many is applied by the store one   *)
(* document at a time, and reads (list_all, schools_by_topic) may be       *)
(* served between two of those document writes.                            *)
(***************************************************************************)
EXTENDS Integers, Sequences, FiniteSets, TLC

VARIABLES
    coll,     \* the school collection: sequence of documents, natural order
    nextId,   \* the next identifier the store will generate
    upd,      \* the update_many call in progress, if any
    last,     \* the call that returned last, with its arguments and result
    logs,     \* the logs.nginx collection read by logs_statistics
    pc,       \* logs_statistics: index of the next count query, or its end
    inflight, \* logs_statistics: a count query is issued and not yet answered
    queries,  \* logs_statistics: the filters of the queries issued, in order
    out,      \* logs_statistics: the lines written to standard output
    err       \* logs_statistics: the error that reached the caller, if any

vars == <<coll, nextId, upd, last, logs, pc, inflight, queries, out, err>>
schoolVars == <<coll, nextId, upd, last>>
logVars == <<logs, pc, inflight, queries, out, err>>

----------------------------------------------------------------------------
(* Bounds and input sets                                                   *)

MaxDocs == 3
MaxLogs == 3

None == "None"
SchoolHandle == "school"
Handles == {None, SchoolHandle}
\* logs_statistics has raised nothing
NoError == [raised |-> None, propagated |-> None]

Names == {"Holberton", "UCSF"}
TopicValues == {"python", "rust"}
\* replacement topic lists handed to update_topics
TopicLists == {<<>>, <<"rust">>, <<"python", "rust">>}
\* keyword arguments handed to insert_school
KwargsSet ==
    { [name |-> "Holberton"],
      [name |-> "Holberton", topics |-> <<"python">>],
      [name |-> "UCSF", address |-> "505 Parnassus Ave", topics |-> <<"python", "rust">>],
      [name |-> "UCSF", topics |-> <<"rust">>],
      [address |-> "972 Mission street"] }

Range(s) == {s[i] : i \in DOMAIN s}
NoFilter == [f \in {} |-> ""]
ArrayFields == {"topics"}

----------------------------------------------------------------------------
(* The store calls the helpers make                                        *)

\* faulty variant: the query value is compared with the whole array field
FieldEqualsWhole(f, v, q) == IF f \in ArrayFields THEN v = <<q>> ELSE v = q

\* one {field: value} pair of a filter against a document's field value:
\* an array field matches when the value is one of its members
FieldMatches(f, v, q) ==
    IF f \in ArrayFields THEN \E i \in DOMAIN v : v[i] = q ELSE v = q

\* a filter is an implicit AND of its pairs; an absent field does not match
Matches(d, filter) ==
    \A f \in DOMAIN filter : f \in DOMAIN d /\ FieldMatches(f, d[f], filter[f])

find(c, filter) == SelectSeq(c, LAMBDA d : Matches(d, filter))

RECURSIVE count_documents(_, _)
count_documents(c, filter) ==
    IF c = <<>> THEN 0
    ELSE (IF Matches(Head(c), filter) THEN 1 ELSE 0)
         + count_documents(Tail(c), filter)

\* faulty variant: update_one, only the first matching document is selected
FirstMatch(c, filter) ==
    LET all == {i \in DOMAIN c : Matches(c[i], filter)}
    IN  {i \in all : \A j \in all : i <= j}

\* update_many: the positions of the documents the filter selects
MatchedPositions(c, filter) == {i \in DOMAIN c : Matches(c[i], filter)}

\* faulty variant: {"$push": ...}, the new topics are appended to the old ones
PushTopics(d, T) ==
    [f \in DOMAIN d \cup {"topics"} |->
        IF f = "topics"
        THEN (IF "topics" \in DOMAIN d THEN d.topics \o T ELSE T)
        ELSE d[f]]

\* faulty variant: {"$addToSet": ...}, the new topics are merged into the old ones
MergeTopics(d, T) ==
    [f \in DOMAIN d \cup {"topics"} |->
        IF f = "topics"
        THEN (IF "topics" \in DOMAIN d
              THEN d.topics \o SelectSeq(T, LAMBDA t : t \notin Range(d.topics))
              ELSE T)
        ELSE d[f]]

\* {"$set": {"topics": T}} on one document
SetTopics(d, T) ==
    [f \in DOMAIN d \cup {"topics"} |-> IF f = "topics" THEN T ELSE d[f]]

\* faulty variant: update_many(..., upsert=True)
UpsertOnMiss(N, T, id) == <<[_id |-> id, name |-> N, topics |-> T]>>

\* the documents update_many creates when nothing matches: none (no upsert)
UpsertedDocs(N, T, id) == <<>>

\* faulty variant: only the "name" field of the keyword arguments is stored
OnlyName(F, id) ==
    [f \in (DOMAIN F \cap {"name"}) \cup {"_id"} |-> IF f = "_id" THEN id ELSE F[f]]

\* insert_one(kwargs): the stored document is kwargs plus the generated _id
InsertedDoc(F, id) ==
    [f \in DOMAIN F \cup {"_id"} |-> IF f = "_id" THEN id ELSE F[f]]

----------------------------------------------------------------------------
(* The helpers that only read                                              *)

\* faulty variant: no guard on the handle
ListAllUnguarded(c, h) == [ret |-> find(c, NoFilter), accessed |-> TRUE]

list_all(c, h) ==
    IF h = None
    THEN [ret |-> <<>>, accessed |-> FALSE]
    ELSE [ret |-> find(c, NoFilter), accessed |-> TRUE]

schools_by_topic(c, topic) == find(c, [topics |-> topic])

----------------------------------------------------------------------------
(* The school collection                                                   *)

Idle == [active |-> FALSE]
NoCall == [op |-> "none"]

InitSchools ==
    /\ coll = <<>>
    /\ nextId = 1
    /\ upd = Idle
    /\ last = NoCall

ListAll(h) ==
    /\ last' = [op |-> "list_all", handle |-> h,
                ret |-> list_all(coll, h).ret,
                accessed |-> list_all(coll, h).accessed]
    /\ UNCHANGED <<coll, nextId, upd>>

SchoolsByTopic(t) ==
    /\ last' = [op |-> "schools_by_topic", topic |-> t,
                ret |-> schools_by_topic(coll, t)]
    /\ UNCHANGED <<coll, nextId, upd>>

InsertSchool(F) ==
    /\ ~upd.active
    /\ Len(coll) < MaxDocs
    /\ coll' = Append(coll, InsertedDoc(F, nextId))
    /\ nextId' = nextId + 1
    /\ last' = [op |-> "insert_school", kwargs |-> F, pre |-> coll,
                ret |-> coll'[Len(coll')]._id]
    /\ UNCHANGED upd

\* update_topics is called: the store takes the update_many request
UpdateBegin(N, T) ==
    /\ ~upd.active
    /\ LET hit == MatchedPositions(coll, [name |-> N])
           new == IF hit = {} THEN UpsertedDocs(N, T, nextId) ELSE <<>>
       IN  /\ upd' = [active |-> TRUE, name |-> N, topics |-> T, pre |-> coll,
                      pending |-> hit,
                      repeat |-> /\ last.op = "update_topics"
                                 /\ last.name = N
                                 /\ last.topics = T]
           /\ coll' = coll \o new
           /\ nextId' = nextId + Len(new)
    /\ last' = NoCall

\* the store writes one of the selected documents
UpdateDoc(i) ==
    /\ upd.active
    /\ i \in upd.pending
    /\ coll' = [coll EXCEPT ![i] = SetTopics(coll[i], upd.topics)]
    /\ upd' = [upd EXCEPT !.pending = upd.pending \ {i}]
    /\ last' = NoCall
    /\ UNCHANGED nextId

\* every selected document is written: update_topics returns None
UpdateEnd ==
    /\ upd.active
    /\ upd.pending = {}
    /\ last' = [op |-> "update_topics", name |-> upd.name, topics |-> upd.topics,
                pre |-> upd.pre, repeat |-> upd.repeat]
    /\ upd' = Idle
    /\ UNCHANGED <<coll, nextId>>

Init ==
    /\ InitSchools
    /\ logs = <<>> /\ pc = 0 /\ inflight = FALSE
    /\ queries = <<>> /\ out = <<>> /\ err = NoError

Next ==
    \/ \E h \in Handles : ListAll(h) /\ UNCHANGED logVars
    \/ \E t \in TopicValues : SchoolsByTopic(t) /\ UNCHANGED logVars
    \/ \E F \in KwargsSet : InsertSchool(F) /\ UNCHANGED logVars
    \/ \E N \in Names, T \in TopicLists : UpdateBegin(N, T) /\ UNCHANGED logVars
    \/ \E i \in 1..MaxDocs : UpdateDoc(i) /\ UNCHANGED logVars
    \/ UpdateEnd /\ UNCHANGED logVars

Spec == Init /\ [][Next]_vars

----------------------------------------------------------------------------
(* logs_statistics                                                         *)

\* documents of logs.nginx
LogDocs ==
    { [method |-> "GET", path |-> "/"],
      [method |-> "GET", path |-> "/status"],
      [method |-> "POST", path |-> "/"],
      [method |-> "POST", path |-> "/status"],
      [method |-> "PUT", path |-> "/"],
      [method |-> "PATCH", path |-> "/"],
      [method |-> "DELETE", path |-> "/"],
      [method |-> "HEAD", path |-> "/status"],
      [path |-> "/"] }

\* errors a count query can end with when the server cannot be reached
StoreErrors == {"ServerSelectionTimeoutError", "AutoReconnect"}

\* faulty variant: the methods in alphabetical order
MethodsSorted == <<"DELETE", "GET", "PATCH", "POST", "PUT">>

Methods == <<"GET", "POST", "PUT", "PATCH", "DELETE">>

\* faulty variant: the status count ignores the method
StatusFilterPathOnly == [path |-> "/status"]

StatusFilter == [method |-> "GET", path |-> "/status"]

\* the statement that follows the last count query
Done == Len(Methods) + 3
\* the run ended with an exception
Aborted == Done + 1

\* the filter of the i-th count_documents call of a run
QueryFilter(i) ==
    IF i = 1 THEN NoFilter
    ELSE IF i <= Len(Methods) + 1 THEN [method |-> Methods[i - 1]]
    ELSE StatusFilter

\* the lines printed once the i-th count has returned
LinesAfter(i, count) ==
    IF i = 1 THEN <<ToString(count) \o " logs", "Methods:">>
    ELSE IF i <= Len(Methods) + 1
         THEN <<"\tmethod " \o Methods[i - 1] \o ": " \o ToString(count)>>
    ELSE <<ToString(count) \o " status check">>

\* faulty variant: the exception is swallowed and the report goes on
ContinueAfterFailure(i) == i + 1

\* no try/except: an exception of a count query ends logs_statistics
AfterFailure(i) == Aborted

\* the exception reaches the caller as the store raised it
Propagate(e) == e

InitLogs ==
    /\ logs \in UNION {[1..n -> LogDocs] : n \in 0..MaxLogs}
    /\ pc = 0
    /\ inflight = FALSE
    /\ queries = <<>>
    /\ out = <<>>
    /\ err = NoError

\* MongoClient(...) and client.logs.nginx: no round trip to the server yet
Connect ==
    /\ pc = 0
    /\ pc' = 1
    /\ UNCHANGED <<logs, inflight, queries, out, err>>

\* the i-th count_documents call is sent to the store
IssueCount(i) ==
    /\ pc = i
    /\ ~inflight
    /\ queries' = Append(queries, QueryFilter(i))
    /\ inflight' = TRUE
    /\ UNCHANGED <<logs, pc, out, err>>

\* the store answers the i-th call; its line is printed
ReturnCount(i) ==
    /\ pc = i
    /\ inflight
    /\ out' = out \o LinesAfter(i, count_documents(logs, queries[Len(queries)]))
    /\ pc' = i + 1
    /\ inflight' = FALSE
    /\ UNCHANGED <<logs, queries, err>>

\* the i-th call raises e
FailCount(i, e) ==
    /\ pc = i
    /\ inflight
    /\ err' = [raised |-> e, propagated |-> Propagate(e)]
    /\ pc' = AfterFailure(i)
    /\ inflight' = FALSE
    /\ UNCHANGED <<logs, queries, out>>

LogsInit ==
    /\ InitLogs
    /\ InitSchools

LogsNext ==
    \/ Connect /\ UNCHANGED schoolVars
    \/ \E i \in 1..(Done - 1) : IssueCount(i) /\ UNCHANGED schoolVars
    \/ \E i \in 1..(Done - 1) : ReturnCount(i) /\ UNCHANGED schoolVars
    \/ \E i \in 1..(Done - 1), e \in StoreErrors : FailCount(i, e) /\ UNCHANGED schoolVars

SpecLogs == LogsInit /\ [][LogsNext]_vars

----------------------------------------------------------------------------
(* Properties of the school helpers                                        *)

HasName(d, N) == "name" \in DOMAIN d /\ d.name = N
\* the topics field of a document as an option: <<>> when the field is absent
TopicsOf(d) == IF "topics" \in DOMAIN d THEN <<d.topics>> ELSE <<>>
Ids(c) == {c[i]._id : i \in DOMAIN c}

\* C1: when update_topics(N, T) has returned, every document named N has
\* topics exactly T, and every document not named N is as it was before
\* the call.
C1_UpdateSetsTopics ==
    last.op = "update_topics" =>
        /\ \A i \in DOMAIN coll :
              HasName(coll[i], last.name) => TopicsOf(coll[i]) = <<last.topics>>
        /\ \A i \in DOMAIN last.pre :
              ~HasName(last.pre[i], last.name) =>
                  i \in DOMAIN coll /\ coll[i] = last.pre[i]

\* two documents named N held other topics, a third document has another name
C1_Witness ==
    /\ last.op = "update_topics"
    /\ \E i, j \in DOMAIN last.pre :
          /\ i # j
          /\ HasName(last.pre[i], last.name) /\ HasName(last.pre[j], last.name)
          /\ TopicsOf(last.pre[i]) # <<last.topics>>
          /\ TopicsOf(last.pre[i]) # <<>>
    /\ \E k \in DOMAIN last.pre :
          ~HasName(last.pre[k], last.name) /\ TopicsOf(last.pre[k]) # <<>>

\* C2: the result of schools_by_topic(t) is exactly the documents of
\* list_all's result whose topics array has t as a member, each once.
TopicMembers(c, t) ==
    {d \in Range(list_all(c, SchoolHandle).ret) :
        "topics" \in DOMAIN d /\ t \in Range(d.topics)}

C2_FilterIsSubsetOfAll ==
    last.op = "schools_by_topic" =>
        /\ Range(last.ret) = TopicMembers(coll, last.topic)
        /\ Len(last.ret) = Cardinality(TopicMembers(coll, last.topic))

\* a returned document holds two topics, and a document with other topics and
\* one without topics are left out
C2_Witness ==
    /\ last.op = "schools_by_topic"
    /\ \E d \in Range(last.ret) : Len(d.topics) = 2
    /\ \E d \in Range(coll) : d \notin Range(last.ret) /\ TopicsOf(d) # <<>>
    /\ \E d \in Range(coll) : TopicsOf(d) = <<>>

\* C3: insert_school(F) adds exactly one document: list_all then returns the
\* documents present before, unchanged, plus one document that is F plus an
\* _id; the _id is the returned value and no other document has it.
C3_InsertAddsOne ==
    last.op = "insert_school" =>
        LET now == list_all(coll, SchoolHandle).ret
            new == {d \in Range(now) : d._id = last.ret}
        IN  /\ Len(now) = Len(last.pre) + 1
            /\ Range(last.pre) \subseteq Range(now)
            /\ Cardinality(Range(now)) = Cardinality(Range(last.pre)) + 1
            /\ Cardinality(new) = 1
            /\ new \cap Range(last.pre) = {}
            /\ \A d \in new :
                  /\ DOMAIN d = DOMAIN last.kwargs \cup {"_id"}
                  /\ \A f \in DOMAIN last.kwargs : d[f] = last.kwargs[f]
            /\ Cardinality({i \in DOMAIN now : now[i]._id = last.ret}) = 1

\* the same fields are inserted a second time, into a collection of two
C3_Witness ==
    /\ last.op = "insert_school"
    /\ Len(last.pre) = 2
    /\ "address" \in DOMAIN last.kwargs
    /\ \E d \in Range(last.pre) :
          \A f \in DOMAIN last.kwargs : f \in DOMAIN d /\ d[f] = last.kwargs[f]

\* C4: list_all(None) returns the empty list without a store access, whatever
\* the collection holds; with a handle it returns every document of the
\* collection.
C4_ListAll ==
    last.op = "list_all" =>
        /\ last.handle = None => last.ret = <<>> /\ ~last.accessed
        /\ last.handle # None =>
              /\ Len(last.ret) = Len(coll)
              /\ \A i \in DOMAIN coll : last.ret[i] = coll[i]

\* list_all(None) over a collection that holds documents
C4_Witness ==
    /\ last.op = "list_all"
    /\ last.handle = None
    /\ Len(coll) >= 2

\* C5: a second update_topics(N, T) right after a first one with the same
\* arguments leaves the collection as the first one left it.
C5_UpdateIdempotent ==
    (last.op = "update_topics" /\ last.repeat) => coll = last.pre

\* the repeated call matched documents and T is not empty
C5_Witness ==
    /\ last.op = "update_topics"
    /\ last.repeat
    /\ last.topics # <<>>
    /\ \E d \in Range(coll) : HasName(d, last.name)

\* C8: while update_topics(N, T) is in progress, every document list_all
\* returns has either the topics it had before the call or T.
C8_PerDocumentAtomic ==
    (last.op = "list_all" /\ last.handle # None /\ upd.active) =>
        /\ Len(last.ret) = Len(upd.pre)
        /\ \A i \in DOMAIN last.ret :
              TopicsOf(last.ret[i]) \in {TopicsOf(upd.pre[i]), <<upd.topics>>}

\* list_all sees one document named N with T and another still with its old
\* topics
C8_Witness ==
    /\ last.op = "list_all" /\ last.handle # None /\ upd.active
    /\ \E i, j \in DOMAIN last.ret :
          /\ HasName(last.ret[i], upd.name) /\ HasName(last.ret[j], upd.name)
          /\ TopicsOf(upd.pre[i]) # <<upd.topics>>
          /\ TopicsOf(last.ret[i]) = <<upd.topics>>
          /\ TopicsOf(last.ret[j]) # <<upd.topics>>
          /\ last.ret[j] = upd.pre[j]

\* C10: update_topics creates and deletes no document and changes no field
\* other than topics; when no document is named N the collection is unchanged.
C10_UpdateFrame ==
    last.op = "update_topics" =>
        /\ Len(coll) = Len(last.pre)
        /\ Ids(coll) = Ids(last.pre)
        /\ \A i \in DOMAIN last.pre :
              /\ i \in DOMAIN coll
              /\ DOMAIN coll[i] \ {"topics"} = DOMAIN last.pre[i] \ {"topics"}
              /\ \A f \in DOMAIN last.pre[i] \ {"topics"} :
                    coll[i][f] = last.pre[i][f]
        /\ (\A d \in Range(last.pre) : ~HasName(d, last.name)) => coll = last.pre

\* update_topics returned and no document of a non-empty collection is named N
C10_Witness ==
    /\ last.op = "update_topics"
    /\ Len(last.pre) >= 2
    /\ \A d \in Range(last.pre) : ~HasName(d, last.name)
    /\ \E d \in Range(last.pre) : "address" \in DOMAIN d

----------------------------------------------------------------------------
(* Properties of logs_statistics                                           *)

NumLogs(P(_)) == Cardinality({i \in DOMAIN logs : P(logs[i])})
WithMethod(M) == NumLogs(LAMBDA d : "method" \in DOMAIN d /\ d.method = M)
StatusChecks ==
    NumLogs(LAMBDA d : /\ "method" \in DOMAIN d /\ d.method = "GET"
                       /\ "path" \in DOMAIN d /\ d.path = "/status")

\* C6: a run that ends normally has written exactly eight lines: the total,
\* "Methods:", the counts of GET, POST, PUT, PATCH and DELETE in that order,
\* and the number of GET /status documents.
C6_ReportLines ==
    pc = Done =>
        out = << ToString(Len(logs)) \o " logs",
                 "Methods:",
                 "\tmethod GET: " \o ToString(WithMethod("GET")),
                 "\tmethod POST: " \o ToString(WithMethod("POST")),
                 "\tmethod PUT: " \o ToString(WithMethod("PUT")),
                 "\tmethod PATCH: " \o ToString(WithMethod("PATCH")),
                 "\tmethod DELETE: " \o ToString(WithMethod("DELETE")),
                 ToString(StatusChecks) \o " status check" >>

\* the report of a collection with a GET /status, a POST /status and a
\* document whose method is none of the five
C6_Witness ==
    /\ pc = Done
    /\ [method |-> "GET", path |-> "/status"] \in Range(logs)
    /\ [method |-> "POST", path |-> "/status"] \in Range(logs)
    /\ \E d \in Range(logs) : "method" \notin DOMAIN d \/ d.method = "HEAD"

TheQueries ==
    << NoFilter,
       [method |-> "GET"], [method |-> "POST"], [method |-> "PUT"],
       [method |-> "PATCH"], [method |-> "DELETE"],
       [method |-> "GET", path |-> "/status"] >>

IsPrefix(s, t) == Len(s) <= Len(t) /\ \A i \in DOMAIN s : s[i] = t[i]
\* the queries answered with a count: all but one in flight or failed
Answered ==
    IF inflight \/ pc = Aborted THEN Len(queries) - 1 ELSE Len(queries)

\* the order of the queries, their being issued one at a time, each once
QueriesInLine ==
    /\ IsPrefix(queries, TheQueries)
    /\ \A i, j \in DOMAIN queries : i # j => queries[i] # queries[j]
    /\ Len(out) = (IF Answered = 0 THEN 0 ELSE Answered + 1)
    /\ pc \in 1..Done => Answered = pc - 1
    /\ pc = Aborted => Len(queries) >= 1

\* C7 as stated: a run is a line of six count queries.
C7_SixQueries ==
    /\ QueriesInLine
    /\ Len(queries) <= 6
    /\ pc = Done => Len(queries) = 6

\* C7, amended: a run is a line of seven count queries: the total, the five
\* methods in their fixed order, then GET and /status; a query is issued only
\* when every earlier one has been answered, and none is issued twice.
C7_SevenQueries ==
    /\ QueriesInLine
    /\ pc = Done => queries = TheQueries

\* the last query is in flight, the six before it are answered
C7_Witness ==
    /\ inflight
    /\ Len(queries) = 7
    /\ Len(out) = 7
    /\ Len(logs) >= 2

\* C9: a failed count query ends the run: the caller gets the store's error
\* as raised, and from then on no query is issued and no line is written.
C9_FailureAborts ==
    /\ [](err # NoError =>
            /\ err.propagated = err.raised
            /\ pc = Aborted
            /\ ~inflight
            /\ Cardinality({i \in DOMAIN queries :
                              queries[i] = queries[Len(queries)]}) = 1)
    /\ [][err # NoError => /\ queries' = queries
                           /\ out' = out
                           /\ err' = err
                           /\ pc' = pc]_vars

\* the count of PUT failed after three lines were written
C9_Witness ==
    /\ err # NoError
    /\ Len(queries) = 4
    /\ Len(out) = 4
    /\ pc = Aborted

====
